---- MODULE Spec2Model ----
(***************************************************************************)
(* Model of the stub-generation part of node-test-utils                    *)
(* (src/src/factories/test-factory.ts, createAutoMock and the stub         *)
(* functions it installs).                                                 *)
(*                                                                         *)
(* A class is modelled by its prototype chain: a sequence of prototypes,   *)
(* index 1 being target.prototype and the last index the prototype whose   *)
(* parent is Object.prototype.  A prototype maps property names to         *)
(* property descriptors.  A stub function is a record holding the fields   *)
(* the code stores on it; the stubs of the external mocking runtime        *)
(* (jest.fn) hold the runtime's implementation slot and its call log.      *)
(***************************************************************************)
EXTENDS Integers, Sequences, FiniteSets, TLC

\* -------------------------------------------------------------- bounds
\* Longest prototype chain below Object.prototype.
MaxDepth == 2
\* Number of configuration calls and invocations made on the stubs.
MaxOps == 4
\* The same, where two surrogates are built and used side by side.
MaxTwoOps == 2
\* Longest list of names handed to createPartialMock.
MaxNames == 2
\* TestFactory: with() and createMany() calls since construction or the last
\* reset(), the largest count given to createMany, and the number of items
\* produced in all.
MaxFactoryOps == 3
MaxCount == 2
MaxDefaults == 4
\* Longest options.overrides list handed to createTestModule.
MaxOverrides == 2
\* Longest endpoint list handed to snapshotMultipleApis.
MaxEndpoints == 2

\* -------------------------------------------------------------- values
\* JavaScript's undefined.
Undefined == "undefined"
\* Values handed to mockReturnValue / mockResolvedValue / mockRejectedValue.
ConfigValues == {Undefined, "v1", "v2"}
\* Argument lists of an invocation.
ArgLists == {<<>>, <<"arg1">>, <<"arg1", "arg2">>}
\* Functions handed to mockImplementation: one ignores its arguments and
\* returns "custom", one returns its first argument.
UserImpls == {"constCustom", "firstArg"}

\* The configuration functions of a stub function.
ConfigOps == {"mockReturnValue", "mockResolvedValue", "mockRejectedValue",
              "mockImplementation"}

\* What the caller of a function observes: a synchronous value, or a promise
\* that is fulfilled or rejected with a value.
Sync(v) == [kind |-> "sync", val |-> v]
Fulfilled(v) == [kind |-> "fulfilled", val |-> v]
Rejected(v) == [kind |-> "rejected", val |-> v]

\* ------------------------------------------------------- prototype chain
MemberNames == {"x", "y"}
\* A name that Object.prototype owns and the classes leave alone.
ObjectNames == {"toString"}
PropertyNames == MemberNames \cup ObjectNames \cup {"constructor"}
\* The names that can get a stub.
StubbableNames == PropertyNames \ {"constructor"}
\* Order in which Object.getOwnPropertyNames lists the own properties.
KeyOrder == <<"constructor", "x", "y", "toString">>

\* Property descriptors: value is "function" for a method, "data" for a
\* non-callable data property and "none" for an accessor property.
MethodDescriptor == [value |-> "function", get |-> FALSE, set |-> FALSE]
DataDescriptor == [value |-> "data", get |-> FALSE, set |-> FALSE]
GetterDescriptor == [value |-> "none", get |-> TRUE, set |-> FALSE]
SetterDescriptor == [value |-> "none", get |-> FALSE, set |-> TRUE]
\* The name is not an own property of the prototype.
NoProperty == [value |-> "absent", get |-> FALSE, set |-> FALSE]
Descriptors == {MethodDescriptor, DataDescriptor, GetterDescriptor, SetterDescriptor}

\* A class prototype always owns "constructor", a function.
Prototypes ==
  {p \in [PropertyNames -> Descriptors \cup {NoProperty}] :
     /\ p["constructor"] = MethodDescriptor
     /\ \A k \in ObjectNames : p[k] = NoProperty}
\* Object.prototype, where every chain of a class ends.
ObjectPrototype ==
  [k \in PropertyNames |-> IF k \in ObjectNames \cup {"constructor"} THEN MethodDescriptor
                           ELSE NoProperty]
Chains == UNION {[1..n -> Prototypes] : n \in 1..MaxDepth}

VARIABLES
  jestAvailable,  \* whether jestFn resolves (global.jest.fn or require('jest-mock'))
  target,         \* the prototype chain of the class handed to createAutoMock
  built,          \* createAutoMock has returned
  mock,           \* the surrogate: a function from its keys to stub references
  other,          \* the surrogate of the same class built with the external runtime
                  \* next to a fallback one (SpecEquiv only, empty elsewhere)
  stubs,          \* the stub functions created so far; a reference is an index
  created,        \* per name, how many stubs the walk created under it
  nops,           \* configuration calls and invocations made so far
  last,           \* the last configuration call or invocation and what it returned
  provider,       \* the descriptor returned by createMockProvider
  data,           \* TestFactory: this.data, the accumulated overrides
  defaultCalls,   \* how many times a produce-defaults function has been called
  hist,           \* TestFactory: the operations called on the factory so far
  out,            \* what the last test-data operation returned
  testModule,     \* createTestModule: the builder's registrations and the compiled container
  snapshots,      \* the stored snapshots: a set of [name, data]
  snap            \* snapshotApi: what the last call did and returned

mockVars_but_stubs == <<jestAvailable, target, built, mock, other, created, nops, last>>
mockVars == <<jestAvailable, target, built, mock, other, stubs, created, nops, last>>
\* The state of the parts other than the auto-mock surrogate and its stubs.
extVars == <<provider, data, defaultCalls, hist, out, testModule, snapshots, snap>>
vars == <<mockVars, extVars>>

\* ------------------------------------------------------------ stub functions
\* No function installed (the property is undefined).
NoImpl == [kind |-> "none", val |-> Undefined]
UserImpl(g) == [kind |-> "user", val |-> g]
\* jest-mock implements mockReturnValue(v) as mockImplementation(() => v), and
\* mockResolvedValue / mockRejectedValue likewise with a promise.
ConstImpl(v) == [kind |-> "const", val |-> v]
ResolveImpl(v) == [kind |-> "resolve", val |-> v]
RejectImpl(v) == [kind |-> "reject", val |-> v]

\* impl(...args)
ApplyImpl(impl, args) ==
  CASE impl.kind = "const" -> Sync(impl.val)
    [] impl.kind = "resolve" -> Fulfilled(impl.val)
    [] impl.kind = "reject" -> Rejected(impl.val)
    [] impl.val = "constCustom" -> Sync("custom")
    [] OTHER -> Sync(IF Len(args) >= 1 THEN args[1] ELSE Undefined)

\* jestFn(): a mock function of the external runtime, created at depth d of
\* the walk.
JestFn(d) ==
  [runtime |-> "jest", origin |-> d,
   impl |-> NoImpl, calls |-> <<>>,
   mockImplementationFn |-> NoImpl, mockReturnValueValue |-> Undefined,
   mockResolvedValueValue |-> Undefined, mockRejectedValueValue |-> Undefined,
   configFns |-> ConfigOps,
   invocations |-> 0, lastResult |-> Sync(Undefined), cfgLog |-> <<>>]

\* The self-built fallback function, none of whose fields is set yet.  It has
\* no call log: calls stays empty.
FallbackFn(d) ==
  [runtime |-> "fallback", origin |-> d,
   impl |-> NoImpl, calls |-> <<>>,
   mockImplementationFn |-> NoImpl, mockReturnValueValue |-> Undefined,
   mockResolvedValueValue |-> Undefined, mockRejectedValueValue |-> Undefined,
   configFns |-> ConfigOps,
   invocations |-> 0, lastResult |-> Sync(Undefined), cfgLog |-> <<>>]

NewStub(jest, d) == IF jest THEN JestFn(d) ELSE FallbackFn(d)

\* The fallback function of createPartialMock: the same function body, but
\* only mockReturnValue and mockResolvedValue are attached to it.
PartialFallbackFn ==
  [FallbackFn(0) EXCEPT !.configFns = {"mockReturnValue", "mockResolvedValue"}]

NewPartialStub(jest) == IF jest THEN JestFn(0) ELSE PartialFallbackFn

\* ------------------------------------------------------------ createAutoMock
\* descriptor && (typeof descriptor.value === 'function' || descriptor.get)
IsMockableNoGetter(descriptor) == descriptor.value = "function"
IsMockable(descriptor) == descriptor.value = "function" \/ descriptor.get

OwnPropertyNames(proto) == {k \in PropertyNames : proto[k] # NoProperty}

\* The body of the forEach callback for one key of the prototype at depth d.
\* st = [mock, seen, stubs, created].
VisitKeyNoSeen(st, proto, d, key, jest) ==
  IF key # "constructor"
    THEN LET st1 == [st EXCEPT !.seen = @ \cup {key}]
         IN IF IsMockable(proto[key])
              THEN [st1 EXCEPT !.stubs = Append(@, NewStub(jest, d)),
                               !.mock = (key :> (Len(st.stubs) + 1)) @@ @,
                               !.created[key] = @ + 1]
              ELSE st1
    ELSE st
\* One function shared by every key and every call.
VisitKeyShared(st, proto, d, key, jest) ==
  IF key # "constructor" /\ key \notin st.seen
    THEN LET st1 == [st EXCEPT !.seen = @ \cup {key}]
         IN IF IsMockable(proto[key])
              THEN IF Len(st.stubs) >= 1
                     THEN [st1 EXCEPT !.mock = (key :> 1) @@ @, !.created[key] = @ + 1]
                     ELSE [st1 EXCEPT !.stubs = Append(@, NewStub(jest, d)),
                                      !.mock = (key :> (Len(st.stubs) + 1)) @@ @,
                                      !.created[key] = @ + 1]
              ELSE st1
    ELSE st
\* The name marked as seen only when it gets a stub.
VisitKeySeenLate(st, proto, d, key, jest) ==
  IF key # "constructor" /\ key \notin st.seen
    THEN IF IsMockable(proto[key])
           THEN [st EXCEPT !.seen = @ \cup {key},
                           !.stubs = Append(@, NewStub(jest, d)),
                           !.mock = (key :> (Len(st.stubs) + 1)) @@ @,
                           !.created[key] = @ + 1]
           ELSE st
    ELSE st
VisitKey(st, proto, d, key, jest) ==
  IF key # "constructor" /\ key \notin st.seen
    THEN LET st1 == [st EXCEPT !.seen = @ \cup {key}]
         IN IF IsMockable(proto[key])
              THEN [st1 EXCEPT !.stubs = Append(@, NewStub(jest, d)),
                               !.mock = (key :> (Len(st.stubs) + 1)) @@ @,
                               !.created[key] = @ + 1]
              ELSE st1
    ELSE st

\* Object.getOwnPropertyNames(proto).forEach(...), from the i-th name on.
RECURSIVE ForEachKey(_, _, _, _, _)
ForEachKey(st, proto, d, i, jest) ==
  IF i > Len(KeyOrder) THEN st
  ELSE IF KeyOrder[i] \in OwnPropertyNames(proto)
    THEN ForEachKey(VisitKey(st, proto, d, KeyOrder[i], jest), proto, d, i + 1, jest)
    ELSE ForEachKey(st, proto, d, i + 1, jest)

\* while (proto && proto !== Object.prototype) { ...; proto = getPrototypeOf(proto) }
\* The walk that does not stop at Object.prototype.
RECURSIVE WalkChainThroughObject(_, _, _, _)
WalkChainThroughObject(st, chain, d, jest) ==
  IF d > Len(chain) THEN st
  ELSE WalkChainThroughObject(ForEachKey(st, chain[d], d, 1, jest), chain, d + 1, jest)
\* chain is the whole prototype chain, Object.prototype at its end.
RECURSIVE WalkChain(_, _, _, _)
WalkChain(st, chain, d, jest) ==
  IF d > Len(chain) \/ chain[d] = ObjectPrototype THEN st
  ELSE WalkChain(ForEachKey(st, chain[d], d, 1, jest), chain, d + 1, jest)

EmptyMock == [k \in {} |-> 0]

AutoMockOf(chain, jest, oldStubs) ==
  WalkChain([mock |-> EmptyMock, seen |-> {}, stubs |-> oldStubs,
             created |-> [k \in StubbableNames |-> 0]],
            Append(chain, ObjectPrototype), 1, jest)

\* --------------------------------------------------------- createPartialMock
\* Names handed to createPartialMock; z is a member of no class.
PartialNames == MemberNames \cup {"z"}
NameLists == UNION {[1..n -> PartialNames] : n \in 0..MaxNames}

\* mockMethods.forEach((method) => { mock[method] = ... }), from the i-th on.
RECURSIVE ForEachMethod(_, _, _, _)
ForEachMethod(st, mockMethods, i, jest) ==
  IF i > Len(mockMethods) THEN st
  ELSE ForEachMethod([mock |-> (mockMethods[i] :> (Len(st.stubs) + 1)) @@ st.mock,
                      stubs |-> Append(st.stubs, NewPartialStub(jest))],
                     mockMethods, i + 1, jest)

\* Only the names that are members of the class get a stub.
PartialMockOfValidated(chain, mockMethods, jest, oldStubs) ==
  ForEachMethod([mock |-> EmptyMock, stubs |-> oldStubs],
                SelectSeq(mockMethods,
                          LAMBDA m : \E d \in 1..Len(chain) :
                                       m \in MemberNames /\ IsMockable(chain[d][m])),
                1, jest)
\* createPartialMock(target, mockMethods); target is not looked at.
PartialMockOf(chain, mockMethods, jest, oldStubs) ==
  ForEachMethod([mock |-> EmptyMock, stubs |-> oldStubs], mockMethods, 1, jest)

\* --------------------------------------------------------- createMockProvider
\* The spread puts the auto-generated stubs over the caller's.
MockProviderOfBaseWins(chain, customMocks, jest, oldStubs) ==
  LET baseMock == AutoMockOf(chain, jest, oldStubs)
  IN [provide |-> chain, useValue |-> baseMock.mock @@ customMocks, stubs |-> baseMock.stubs]
\* createMockProvider(target, customMocks): { ...baseMock, ...customMocks };
\* customMocks is empty when the argument is omitted.
MockProviderOf(chain, customMocks, jest, oldStubs) ==
  LET baseMock == AutoMockOf(chain, jest, oldStubs)
  IN [provide |-> chain, useValue |-> customMocks @@ baseMock.mock, stubs |-> baseMock.stubs]

\* ------------------------------------------------- the fallback stub function
\* const fn = function(...args) { ... }: the fallback reads three of its fields
\* in a fixed order; mockRejectedValueValue is never read and nothing is logged.
FallbackResultReturnFirst(f, args) ==
  IF f.mockReturnValueValue # Undefined THEN Sync(f.mockReturnValueValue)
  ELSE IF f.mockImplementationFn # NoImpl THEN ApplyImpl(f.mockImplementationFn, args)
  ELSE IF f.mockResolvedValueValue # Undefined THEN Fulfilled(f.mockResolvedValueValue)
  ELSE Sync(Undefined)
FallbackResult(f, args) ==
  IF f.mockImplementationFn # NoImpl THEN ApplyImpl(f.mockImplementationFn, args)
  ELSE IF f.mockReturnValueValue # Undefined THEN Sync(f.mockReturnValueValue)
  ELSE IF f.mockResolvedValueValue # Undefined THEN Fulfilled(f.mockResolvedValueValue)
  ELSE Sync(Undefined)

FallbackCall(f, args) == [stub |-> f, result |-> FallbackResult(f, args)]

\* The four configuration functions of the fallback; self is the reference to
\* fn, which each of them returns.
FallbackMockReturnValueNoSelf(f, self, value) ==
  [stub |-> [f EXCEPT !.mockReturnValueValue = value], ret |-> 0]
FallbackMockReturnValue(f, self, value) ==
  [stub |-> [f EXCEPT !.mockReturnValueValue = value], ret |-> self]
FallbackMockResolvedValue(f, self, value) ==
  [stub |-> [f EXCEPT !.mockResolvedValueValue = value], ret |-> self]
FallbackMockRejectedValue(f, self, value) ==
  [stub |-> [f EXCEPT !.mockRejectedValueValue = value], ret |-> self]
FallbackMockImplementation(f, self, impl) ==
  [stub |-> [f EXCEPT !.mockImplementationFn = impl], ret |-> self]

\* ------------------------------------------ the external runtime's mock function
\* jest-mock: a call pushes its arguments on mock.calls, then runs the
\* implementation slot (undefined result when the slot is empty).
JestCall(f, args) ==
  [stub |-> [f EXCEPT !.calls = Append(@, args)],
   result |-> IF f.impl = NoImpl THEN Sync(Undefined) ELSE ApplyImpl(f.impl, args)]

\* jest-mock: every configuration function overwrites the one implementation
\* slot and returns the mock function.
JestMockImplementation(f, self, impl) ==
  [stub |-> [f EXCEPT !.impl = impl], ret |-> self]
JestMockReturnValue(f, self, value) == JestMockImplementation(f, self, ConstImpl(value))
JestMockResolvedValue(f, self, value) == JestMockImplementation(f, self, ResolveImpl(value))
JestMockRejectedValue(f, self, value) == JestMockImplementation(f, self, RejectImpl(value))

\* ------------------------------------------------- operations on mock[key]
\* mock[key] is jestFn() when the runtime was found, the fallback otherwise.
MockReturnValue(f, self, value) ==
  IF f.runtime = "jest" THEN JestMockReturnValue(f, self, value)
  ELSE FallbackMockReturnValue(f, self, value)
MockResolvedValue(f, self, value) ==
  IF f.runtime = "jest" THEN JestMockResolvedValue(f, self, value)
  ELSE FallbackMockResolvedValue(f, self, value)
MockRejectedValue(f, self, value) ==
  IF f.runtime = "jest" THEN JestMockRejectedValue(f, self, value)
  ELSE FallbackMockRejectedValue(f, self, value)
MockImplementation(f, self, impl) ==
  IF f.runtime = "jest" THEN JestMockImplementation(f, self, impl)
  ELSE FallbackMockImplementation(f, self, impl)
Call(f, args) ==
  IF f.runtime = "jest" THEN JestCall(f, args) ELSE FallbackCall(f, args)

\* History kept for stating the properties: the last two configuration calls
\* made on a stub, the number of its invocations and its last result.
Cfg(op, value) == [op |-> op, value |-> value]
Logged(f, c) ==
  [f EXCEPT !.cfgLog = IF Len(@) < 2 THEN Append(@, c) ELSE <<@[2], c>>]
Invoked(f, result) ==
  [f EXCEPT !.invocations = @ + 1, !.lastResult = result]

NoLast == [op |-> "none", stub |-> 0, value |-> Undefined, args |-> <<>>,
           returned |-> 0, result |-> Sync(Undefined)]

\* The stubs a caller can reach: the values of the surrogates built.
Reachable == {mock[k] : k \in DOMAIN mock} \cup {other[k] : k \in DOMAIN other}

\* ------------------------------------------------------------------ actions
CreateAutoMock ==
  /\ ~built
  /\ LET r == AutoMockOf(target, jestAvailable, stubs)
     IN /\ mock' = r.mock
        /\ stubs' = r.stubs
        /\ created' = r.created
  /\ built' = TRUE
  /\ UNCHANGED <<extVars, jestAvailable, target, other, nops, last>>

\* One configuration call on stub id; r is what the function did.
Configured(id, op, value, r) ==
  /\ stubs' = [stubs EXCEPT ![id] = Logged(r.stub, Cfg(op, value))]
  /\ last' = [NoLast EXCEPT !.op = op, !.stub = id, !.value = value, !.returned = r.ret]
  /\ nops' = nops + 1
  /\ UNCHANGED <<extVars, jestAvailable, target, built, mock, other, created>>

\* mock[key].mockReturnValue(value)
DoMockReturnValue ==
  /\ nops < MaxOps
  /\ \E id \in Reachable, value \in ConfigValues :
       Configured(id, "mockReturnValue", value, MockReturnValue(stubs[id], id, value))

\* mock[key].mockResolvedValue(value)
DoMockResolvedValue ==
  /\ nops < MaxOps
  /\ \E id \in Reachable, value \in ConfigValues :
       Configured(id, "mockResolvedValue", value, MockResolvedValue(stubs[id], id, value))

\* mock[key].mockRejectedValue(value)
DoMockRejectedValue ==
  /\ nops < MaxOps
  /\ \E id \in Reachable, value \in ConfigValues :
       Configured(id, "mockRejectedValue", value, MockRejectedValue(stubs[id], id, value))

\* mock[key].mockImplementation(g)
DoMockImplementation ==
  /\ nops < MaxOps
  /\ \E id \in Reachable, g \in UserImpls :
       Configured(id, "mockImplementation", g, MockImplementation(stubs[id], id, UserImpl(g)))

\* mock[key](...args)
Invoke(id, args) ==
  /\ LET r == Call(stubs[id], args)
     IN /\ stubs' = [stubs EXCEPT ![id] = Invoked(r.stub, r.result)]
        /\ last' = [NoLast EXCEPT !.op = "call", !.stub = id, !.args = args,
                                  !.result = r.result]
  /\ nops' = nops + 1
  /\ UNCHANGED <<extVars, jestAvailable, target, built, mock, other, created>>

DoInvoke ==
  /\ nops < MaxOps
  /\ \E id \in Reachable, args \in ArgLists : Invoke(id, args)

\* A call without arguments to a stub that was neither configured nor called.
InvokeUnconfigured ==
  \E id \in Reachable :
    /\ stubs[id].invocations = 0
    /\ Invoke(id, <<>>)

\* ------------------------------------------------------------ specifications
\* Nothing has been called yet on the other parts of the library.
NoProvider == [built |-> FALSE, provide |-> <<>>, useValue |-> EmptyMock,
               customMocks |-> EmptyMock, given |-> FALSE, firstFresh |-> 0]
EmptyObject == [k \in {} |-> 0]
NoOut == [op |-> "none", item |-> EmptyObject, items |-> <<>>, self |-> FALSE,
          dataBefore |-> EmptyObject, overrides |-> EmptyObject, given |-> FALSE,
          defaults |-> EmptyObject, count |-> 0, callsBefore |-> 0, callsAfter |-> 0]
\* The providers of the module under test.
Tokens == {"UserService", "ConfigService"}
NoInstance == [kind |-> "none", val |-> Undefined]
NoModule == [called |-> FALSE, overrides |-> <<>>, registered |-> <<>>, events |-> <<>>,
             instances |-> [t \in Tokens |-> NoInstance], asked |-> Undefined,
             got |-> NoInstance]
\* Nothing sent, received or recorded.
NoRequest == [verb |-> "none", url |-> <<>>, query |-> Undefined, headers |-> Undefined,
              body |-> Undefined]
NoResponse == [status |-> "none", headers |-> Undefined, body |-> Undefined]
NoOptions == [expectedStatus |-> Undefined, method |-> Undefined, body |-> Undefined,
              query |-> Undefined, headers |-> Undefined, snapshotName |-> Undefined,
              snapshotFullResponse |-> FALSE]
NoMulti == [called |-> FALSE, endpoints |-> <<>>, statuses |-> <<>>, results |-> <<>>,
            log |-> <<>>, failedAt |-> 0, returned |-> FALSE]
NoSnap == [called |-> FALSE, url |-> <<>>, options |-> NoOptions, expectGlobal |-> TRUE,
           request |-> NoRequest, response |-> NoResponse, events |-> <<>>,
           name |-> <<>>, data |-> NoResponse, storeBefore |-> {}, store |-> {},
           taken |-> <<>>, multi |-> NoMulti,
           outcome |-> "none", returned |-> FALSE]

InitExt ==
  /\ provider = NoProvider
  /\ data = EmptyObject
  /\ defaultCalls = 0
  /\ hist = <<>>
  /\ out = NoOut
  /\ testModule = NoModule
  /\ snapshots = {}
  /\ snap = NoSnap

InitCommon ==
  /\ jestAvailable \in BOOLEAN
  /\ built = FALSE
  /\ mock = EmptyMock
  /\ other = EmptyMock
  /\ stubs = <<>>
  /\ created = [k \in StubbableNames |-> 0]
  /\ nops = 0
  /\ last = NoLast
  /\ InitExt

Proto(x, y) == [constructor |-> MethodDescriptor, x |-> x, y |-> y, toString |-> NoProperty]

\* The classes of the tests: class TestService { x() {}; get y() {} }, and
\* class DerivedService extends BaseService, each with a method x.
TestChains ==
  {<<Proto(MethodDescriptor, GetterDescriptor)>>,
   <<Proto(MethodDescriptor, NoProperty), Proto(MethodDescriptor, NoProperty)>>}

\* The stub functions of a mocked test class, configured and called.
Init == InitCommon /\ target \in TestChains

Next ==
  \/ CreateAutoMock
  \/ DoMockReturnValue
  \/ DoMockResolvedValue
  \/ DoMockRejectedValue
  \/ DoMockImplementation
  \/ DoInvoke

Spec == Init /\ [][Next]_vars

\* Member discovery over every class shape within the bounds.
InitDiscover == InitCommon /\ target \in Chains

NextDiscover ==
  \/ CreateAutoMock
  \/ InvokeUnconfigured

SpecDiscover == InitDiscover /\ [][NextDiscover]_vars

\* --------------------------------------------------------------- test data
\* An entity has an id and a name; objects are partial entities.
Fields == {"id", "name"}
Objects == UNION {[ks -> {1, 2}] : ks \in SUBSET Fields}

\* default() of the factory under test, on its n-th call: a fresh identifier
\* (a counter, so one a caller can also write in an override) and the
\* default name.
DefaultOf(n) == [id |-> n, name |-> 0]

\* { ...a, ...b }
Merge(a, b) == b @@ a

\* with(overrides): this.data = { ...this.data, ...overrides }; return this
WithOfEarlierWins(d, overrides) == [data |-> Merge(overrides, d), self |-> TRUE]
WithOf(d, overrides) == [data |-> Merge(d, overrides), self |-> TRUE]

\* create(): { ...this.default(), ...this.data }; n default() calls were made before
CreateOf(d, n) == [item |-> Merge(DefaultOf(n + 1), d), calls |-> n + 1]

\* The callback of Array.from in createMany, run for the items still to make.
RECURSIVE ManyFrom(_, _)
ManyFrom(st, remaining) ==
  IF remaining = 0 THEN st
  ELSE LET instance == CreateOf(st.data, st.calls)
       IN ManyFrom([items |-> Append(st.items, instance.item),
                    data |-> EmptyObject,
                    calls |-> instance.calls], remaining - 1)

RECURSIVE ManyFromNoReset(_, _)
ManyFromNoReset(st, remaining) ==
  IF remaining = 0 THEN st
  ELSE LET instance == CreateOf(st.data, st.calls)
       IN ManyFromNoReset([items |-> Append(st.items, instance.item),
                           data |-> st.data,
                           calls |-> instance.calls], remaining - 1)

\* createMany without the reset in the callback.
CreateManyOfNoReset(d, n, count) ==
  ManyFromNoReset([items |-> <<>>, data |-> d, calls |-> n], count)
\* createMany with one instance made and repeated.
CreateManyOfOneInstance(d, n, count) ==
  LET instance == CreateOf(d, n)
  IN [items |-> [i \in 1..count |-> instance.item],
      data |-> IF count > 0 THEN EmptyObject ELSE d,
      calls |-> IF count > 0 THEN instance.calls ELSE n]
\* createMany that clears the overrides whatever the count.
CreateManyOfClearsAlways(d, n, count) ==
  [ManyFrom([items |-> <<>>, data |-> d, calls |-> n], count) EXCEPT !.data = EmptyObject]
\* createMany(count)
CreateManyOf(d, n, count) == ManyFrom([items |-> <<>>, data |-> d, calls |-> n], count)

\* reset(): this.data = {}; return this
ResetOfKeeps(d) == [data |-> d, self |-> TRUE]
ResetOf(d) == [data |-> EmptyObject, self |-> TRUE]

\* createTestData(defaults, overrides = {})
CreateTestDataOfDefaultsWin(defaults, overrides, given) ==
  Merge(IF given THEN overrides ELSE EmptyObject, defaults)
CreateTestDataOf(defaults, overrides, given) ==
  Merge(defaults, IF given THEN overrides ELSE EmptyObject)

\* The function returned by createFactory(defaults), called with overrides
\* after n calls of defaults.
FactoryFnOf(n, overrides, given) ==
  [item |-> Merge(DefaultOf(n + 1), IF given THEN overrides ELSE EmptyObject),
   calls |-> n + 1]

HistEntry(op, overrides) == [op |-> op, overrides |-> overrides]

\* factory.with(overrides)
FWith ==
  /\ Len(hist) < MaxFactoryOps
  /\ \E overrides \in Objects :
       LET r == WithOf(data, overrides)
       IN /\ data' = r.data
          /\ hist' = Append(hist, HistEntry("with", overrides))
          /\ out' = [NoOut EXCEPT !.op = "with", !.self = r.self, !.overrides = overrides,
                                  !.dataBefore = data, !.callsBefore = defaultCalls,
                                  !.callsAfter = defaultCalls]
  /\ UNCHANGED <<mockVars, provider, defaultCalls, testModule, snapshots, snap>>

\* factory.create()
FCreate ==
  /\ defaultCalls < MaxDefaults
  /\ LET r == CreateOf(data, defaultCalls)
     IN /\ defaultCalls' = r.calls
        /\ out' = [NoOut EXCEPT !.op = "create", !.item = r.item, !.dataBefore = data,
                                !.callsBefore = defaultCalls, !.callsAfter = r.calls]
  /\ UNCHANGED <<mockVars, provider, data, hist, testModule, snapshots, snap>>

\* factory.createMany(count)
FCreateMany ==
  \E count \in 0..MaxCount :
    /\ defaultCalls + count <= MaxDefaults
    /\ count > 0 => Len(hist) < MaxFactoryOps
    /\ LET r == CreateManyOf(data, defaultCalls, count)
       IN /\ data' = r.data
          /\ defaultCalls' = r.calls
          /\ hist' = IF count > 0 THEN Append(hist, HistEntry("createMany", EmptyObject))
                      ELSE hist
          /\ out' = [NoOut EXCEPT !.op = "createMany", !.items = r.items, !.count = count,
                                  !.dataBefore = data, !.callsBefore = defaultCalls,
                                  !.callsAfter = r.calls]
    /\ UNCHANGED <<mockVars, provider, testModule, snapshots, snap>>

\* factory.reset(); the history starts again, with what was cleared.
FReset ==
  /\ ~(hist # <<>> /\ hist[Len(hist)].op = "reset")
  /\ LET r == ResetOf(data)
     IN /\ data' = r.data
        /\ hist' = <<HistEntry("reset", data)>>
        /\ out' = [NoOut EXCEPT !.op = "reset", !.self = r.self, !.dataBefore = data,
                                !.callsBefore = defaultCalls, !.callsAfter = defaultCalls]
  /\ UNCHANGED <<mockVars, provider, defaultCalls, testModule, snapshots, snap>>

InitFactory == InitCommon /\ target \in TestChains /\ jestAvailable = TRUE

NextFactory ==
  \/ FWith
  \/ FCreate
  \/ FCreateMany
  \/ FReset

SpecFactory == InitFactory /\ [][NextFactory]_vars

\* createTestData(defaults) or createTestData(defaults, overrides)
CreateTestData ==
  /\ \E defaults \in Objects, overrides \in Objects, given \in BOOLEAN :
       /\ ~given => overrides = EmptyObject
       /\ out' = [NoOut EXCEPT !.op = "createTestData",
                               !.item = CreateTestDataOf(defaults, overrides, given),
                               !.defaults = defaults, !.overrides = overrides,
                               !.given = given, !.callsBefore = defaultCalls,
                               !.callsAfter = defaultCalls]
  /\ UNCHANGED <<mockVars, provider, data, defaultCalls, hist, testModule, snapshots, snap>>

\* createUser() or createUser(overrides), createUser = createFactory(defaults)
CallFactory ==
  /\ defaultCalls < MaxDefaults
  /\ \E overrides \in Objects, given \in BOOLEAN :
       /\ ~given => overrides = EmptyObject
       /\ LET r == FactoryFnOf(defaultCalls, overrides, given)
          IN /\ defaultCalls' = r.calls
             /\ out' = [NoOut EXCEPT !.op = "factoryFn", !.item = r.item,
                                     !.overrides = overrides, !.given = given,
                                     !.callsBefore = defaultCalls, !.callsAfter = r.calls]
  /\ UNCHANGED <<mockVars, provider, data, hist, testModule, snapshots, snap>>

NextTestData ==
  \/ CreateTestData
  \/ CallFactory

SpecTestData == InitFactory /\ [][NextTestData]_vars

\* ------------------------------------------------------------- test module
\* ModuleOverride: a token and up to three strategies; useValue is a reference
\* to a substitute object (the surrogate of a createMockProvider descriptor
\* or any other object), null, or undefined.
UseValues == {Undefined, "null", "mockObject"}
UseClasses == {Undefined, "MockClass"}
UseFactories == {Undefined, "mockFactory"}
Injects == {Undefined, "[Dep]"}
ModuleOverrides ==
  {o \in [provide : Tokens, useValue : UseValues, useClass : UseClasses,
           useFactory : UseFactories, inject : Injects] :
     o.useFactory = Undefined => o.inject = Undefined}
OverrideLists == UNION {[1..n -> ModuleOverrides] : n \in 0..MaxOverrides}

Registration(provide, strategy, value, inject) ==
  [provide |-> provide, strategy |-> strategy, value |-> value, inject |-> inject]

\* inject: override.inject || []
InjectOrEmpty(inject) == IF inject = Undefined THEN "[]" ELSE inject

\* The callback of overrides.forEach with useClass tried first.
ApplyOverrideClassFirst(builder, override) ==
  IF override.useClass # Undefined
  THEN Append(builder, Registration(override.provide, "useClass", override.useClass, "[]"))
  ELSE IF override.useValue # Undefined
  THEN Append(builder, Registration(override.provide, "useValue", override.useValue, "[]"))
  ELSE IF override.useFactory # Undefined
  THEN Append(builder, Registration(override.provide, "useFactory", override.useFactory,
                                    InjectOrEmpty(override.inject)))
  ELSE builder
\* The callback of overrides.forEach with useValue tested for truthiness.
ApplyOverrideTruthyValue(builder, override) ==
  IF override.useValue \notin {Undefined, "null"}
  THEN Append(builder, Registration(override.provide, "useValue", override.useValue, "[]"))
  ELSE IF override.useClass # Undefined
  THEN Append(builder, Registration(override.provide, "useClass", override.useClass, "[]"))
  ELSE IF override.useFactory # Undefined
  THEN Append(builder, Registration(override.provide, "useFactory", override.useFactory,
                                    InjectOrEmpty(override.inject)))
  ELSE builder
\* The callback of overrides.forEach: builder is the list of the calls
\* overrideProvider(provide).useX(...) made on moduleBuilder so far.
ApplyOverride(builder, override) ==
  IF override.useValue # Undefined
  THEN Append(builder, Registration(override.provide, "useValue", override.useValue, "[]"))
  ELSE IF override.useClass # Undefined
  THEN Append(builder, Registration(override.provide, "useClass", override.useClass, "[]"))
  ELSE IF override.useFactory # Undefined
  THEN Append(builder, Registration(override.provide, "useFactory", override.useFactory,
                                    InjectOrEmpty(override.inject)))
  ELSE builder

RECURSIVE ForEachOverride(_, _, _)
ForEachOverride(builder, overrides, i) ==
  IF i > Len(overrides) THEN builder
  ELSE ForEachOverride(ApplyOverride(builder, overrides[i]), overrides, i + 1)

\* The container: the registration made last for a token replaces the
\* provider, a token with none keeps the module's own.
RegistrationsOf(registered, token) ==
  {i \in 1..Len(registered) : registered[i].provide = token}
InstanceOf(registered, token) ==
  IF RegistrationsOf(registered, token) = {}
  THEN [kind |-> "real", val |-> token]
  ELSE LET i == CHOOSE i \in RegistrationsOf(registered, token) :
                  \A j \in RegistrationsOf(registered, token) : j <= i
       IN [kind |-> registered[i].strategy, val |-> registered[i].value]
Compile(registered) == [t \in Tokens |-> InstanceOf(registered, t)]

\* createTestModule(options): the overrides are applied, then compile().
CreateTestModuleOf(overrides) ==
  LET registered == ForEachOverride(<<>>, overrides, 1)
  IN [NoModule EXCEPT !.called = TRUE, !.overrides = overrides, !.registered = registered,
                      !.events = [i \in 1..Len(registered) |-> "overrideProvider"]
                                 \o <<"compile">>,
                      !.instances = Compile(registered)]

\* await createTestModule({ module, overrides }), once in a test case: every
\* call builds a module of its own.
CreateTestModule ==
  /\ ~testModule.called
  /\ \E overrides \in OverrideLists : testModule' = CreateTestModuleOf(overrides)
  /\ UNCHANGED <<mockVars, provider, data, defaultCalls, hist, out, snapshots, snap>>

\* await getTestProvider({ module, overrides }, provider)
GetTestProvider ==
  /\ ~testModule.called
  /\ \E overrides \in OverrideLists, token \in Tokens :
       LET module == CreateTestModuleOf(overrides)
       IN testModule' = [module EXCEPT !.asked = token, !.got = module.instances[token]]
  /\ UNCHANGED <<mockVars, provider, data, defaultCalls, hist, out, snapshots, snap>>

NextModule ==
  \/ CreateTestModule
  \/ GetTestProvider

SpecModule == InitFactory /\ [][NextModule]_vars

\* ---------------------------------------------------------------- snapshots
\* Urls are lists of characters; the second has a character that is neither
\* a letter nor a digit nor a slash.
AlphaNumerics == {"u", "a", "b", "7"}
Urls == {<<"/", "u", "/", "7">>, <<"/", "a", "-", "b">>}
Methods == {"GET", "POST", "PUT", "PATCH", "DELETE"}
\* Status codes, written as the server sends them.
Statuses == {"200", "404"}
Truthy(v) == v \notin {Undefined, ""}

\* SnapshotApiOptions; an omitted option is undefined.
SnapshotApiOptions ==
  [expectedStatus : Statuses \cup {Undefined},
   method : Methods \cup {Undefined},
   body : {Undefined, "", "payload"},
   query : {Undefined, "page=1"},
   headers : {Undefined, "Authorization"},
   snapshotName : {Undefined, "", "custom"},
   snapshotFullResponse : BOOLEAN]

\* The defaults of the destructuring.
ExpectedStatusOf(options) ==
  IF options.expectedStatus = Undefined THEN "200" ELSE options.expectedStatus
MethodOf(options) == IF options.method = Undefined THEN "GET" ELSE options.method
HeadersOf(options) == IF options.headers = Undefined THEN "{}" ELSE options.headers

\* The request with the body attached whatever the method.
RequestOfBodyAlways(url, options) ==
  LET method == MethodOf(options)
  IN [verb |-> IF method \in Methods THEN method ELSE "GET",
      url |-> url,
      query |-> IF Truthy(options.query) THEN options.query ELSE Undefined,
      headers |-> HeadersOf(options),
      body |-> IF Truthy(options.body) THEN options.body ELSE Undefined]
\* The request built by the switch and the three steps after it.
RequestOf(url, options) ==
  LET method == MethodOf(options)
  IN [verb |-> IF method \in Methods THEN method ELSE "GET",
      url |-> url,
      query |-> IF Truthy(options.query) THEN options.query ELSE Undefined,
      headers |-> HeadersOf(options),
      body |-> IF Truthy(options.body) /\ method \in {"POST", "PUT", "PATCH"}
               THEN options.body ELSE Undefined]

\* What the server answers with a status.
ResponseOf(status) ==
  [status |-> status, headers |-> "content-type", body |-> IF status = "200" THEN "found" ELSE "notFound"]

\* snapshotData, always the full response.
SnapshotDataOfAlwaysFull(options, res) ==
  [status |-> res.status, headers |-> res.headers, body |-> res.body]
\* snapshotData: the three parts of the response, or the body with the other
\* two parts left out.
SnapshotDataOf(options, res) ==
  IF options.snapshotFullResponse
  THEN [status |-> res.status, headers |-> res.headers, body |-> res.body]
  ELSE [status |-> "none", headers |-> Undefined, body |-> res.body]

\* The generated name with the slashes alone replaced.
GeneratedNameSlashOnly(method, url) ==
  <<method, "_">> \o [i \in 1..Len(url) |-> IF url[i] = "/" THEN "_" ELSE url[i]]
\* `${method}_${url.replace(/[^a-zA-Z0-9]/g, '_')}`
GeneratedName(method, url) ==
  <<method, "_">> \o [i \in 1..Len(url) |-> IF url[i] \in AlphaNumerics THEN url[i] ELSE "_"]
SnapshotNameOf(options, url) ==
  IF Truthy(options.snapshotName) THEN <<options.snapshotName>>
  ELSE GeneratedName(MethodOf(options), url)

\* expect(data).toMatchSnapshot(name) on a store of snapshots: within a test
\* the runner numbers the snapshots of one name, and count is that number; a
\* new snapshot is written, a known one is compared.
StoredUnder(store, name, count) == {e \in store : e.name = name /\ e.count = count}
MatchSnapshot(store, name, count, snapshotData) ==
  IF StoredUnder(store, name, count) = {}
  THEN [store |-> store \cup {[name |-> name, count |-> count, data |-> snapshotData]},
        pass |-> TRUE]
  ELSE [store |-> store,
        pass |-> \A e \in StoredUnder(store, name, count) : e.data = snapshotData]
\* The number of the next snapshot of a name, after those taken in the test.
CountOf(taken, name) == Cardinality({i \in 1..Len(taken) : taken[i] = name}) + 1

\* The part of snapshotApi after the request, with the snapshot taken whatever
\* the status.
AfterResponseSnapshotAlways(st, url, options, expectGlobal) ==
  LET res == st.response
      snapshotData == SnapshotDataOf(options, res)
      name == SnapshotNameOf(options, url)
      m == MatchSnapshot(st.store, name, CountOf(st.taken, name), snapshotData)
  IN [st EXCEPT !.events = st.events \o <<"snapshot", "assertStatus">>,
                !.taken = Append(st.taken, name),
                !.name = name, !.data = snapshotData, !.store = m.store,
                !.outcome = IF ~m.pass THEN "snapshotMismatch"
                            ELSE IF res.status # ExpectedStatusOf(options)
                            THEN "statusMismatch" ELSE "returned",
                !.returned = m.pass /\ res.status = ExpectedStatusOf(options)]
\* The part of snapshotApi after the request: the global expect is read, the
\* status asserted, the data snapshotted, the response returned; a failing
\* step throws.
AfterResponse(st, url, options, expectGlobal) ==
  LET res == st.response
  IN IF ~expectGlobal
     THEN [st EXCEPT !.outcome = "typeError"]
     ELSE IF res.status # ExpectedStatusOf(options)
     THEN [st EXCEPT !.events = Append(st.events, "assertStatus"),
                     !.outcome = "statusMismatch"]
     ELSE LET snapshotData == SnapshotDataOf(options, res)
              name == SnapshotNameOf(options, url)
              m == MatchSnapshot(st.store, name, CountOf(st.taken, name), snapshotData)
          IN [st EXCEPT !.events = st.events \o <<"assertStatus", "snapshot">>,
                        !.taken = Append(st.taken, name),
                        !.name = name, !.data = snapshotData, !.store = m.store,
                        !.outcome = IF m.pass THEN "returned" ELSE "snapshotMismatch",
                        !.returned = m.pass]

\* snapshotApi(app, url, options) against a store of snapshots and a server
\* that answers with status, in a test that took the snapshots named in taken.
SnapshotApiOf(store, taken, url, options, status, expectGlobal) ==
  AfterResponse([NoSnap EXCEPT !.called = TRUE, !.url = url, !.options = options,
                               !.expectGlobal = expectGlobal,
                               !.request = RequestOf(url, options),
                               !.response = ResponseOf(status),
                               !.events = <<"request">>,
                               !.storeBefore = store, !.store = store,
                               !.taken = taken],
                url, options, expectGlobal)

\* Snapshots an earlier run of the tests has left in the store.
EarlierNames == {<<"custom">>} \cup {GeneratedName("GET", url) : url \in Urls}
EarlierData ==
  {SnapshotDataOf([NoOptions EXCEPT !.snapshotFullResponse = full], ResponseOf(status)) :
     full \in BOOLEAN, status \in Statuses}
EarlierRun ==
  /\ ~snap.called
  /\ snapshots = {}
  /\ \E name \in EarlierNames, d \in EarlierData :
       snapshots' = {[name |-> name, count |-> 1, data |-> d]}
  /\ UNCHANGED <<mockVars, provider, data, defaultCalls, hist, out, testModule, snap>>

\* await snapshotApi(app, url, options), once in a test case.
SnapshotApi ==
  /\ ~snap.called
  /\ \E url \in Urls, options \in SnapshotApiOptions, status \in Statuses,
        expectGlobal \in BOOLEAN :
       LET r == SnapshotApiOf(snapshots, <<>>, url, options, status, expectGlobal)
       IN /\ snap' = r
          /\ snapshots' = r.store
  /\ UNCHANGED <<mockVars, provider, data, defaultCalls, hist, out, testModule>>

\* The endpoints of the lists: a url and options.
EndpointOptions ==
  {[NoOptions EXCEPT !.expectedStatus = e, !.snapshotName = n] :
     e \in {Undefined, "404"}, n \in {Undefined, "custom"}}
Endpoints == [url : Urls, options : EndpointOptions]
EndpointLists == UNION {[1..n -> Endpoints] : n \in 0..MaxEndpoints}

\* The events of one snapshotApi call, as events of endpoint i.
EventsOf(i, events) == [j \in 1..Len(events) |-> [endpoint |-> i, event |-> events[j]]]

\* The loop with every endpoint tried, whatever became of the one before.
RECURSIVE ForEachEndpointKeepGoing(_, _, _, _, _)
ForEachEndpointKeepGoing(st, store, taken, i, expectGlobal) ==
  IF i > Len(st.endpoints) THEN [multi |-> st, store |-> store]
  ELSE LET result == SnapshotApiOf(store, taken, st.endpoints[i].url, st.endpoints[i].options,
                                   st.statuses[i], expectGlobal)
           log == st.log \o EventsOf(i, result.events)
       IN ForEachEndpointKeepGoing(
            [st EXCEPT !.log = Append(log, [endpoint |-> i,
                                            event |-> IF result.returned THEN "push" ELSE "throw"]),
                       !.results = Append(st.results, result.response),
                       !.failedAt = IF result.returned \/ st.failedAt # 0 THEN st.failedAt ELSE i,
                       !.returned = st.returned /\ result.returned],
            result.store, result.taken, i + 1, expectGlobal)

\* for (const endpoint of endpoints): await snapshotApi, push the result; a
\* call that throws ends the loop and the function.
RECURSIVE ForEachEndpoint(_, _, _, _, _)
ForEachEndpoint(st, store, taken, i, expectGlobal) ==
  IF i > Len(st.endpoints) THEN [multi |-> [st EXCEPT !.returned = TRUE], store |-> store]
  ELSE LET result == SnapshotApiOf(store, taken, st.endpoints[i].url, st.endpoints[i].options,
                                   st.statuses[i], expectGlobal)
           log == st.log \o EventsOf(i, result.events)
       IN IF result.returned
          THEN ForEachEndpoint(
                 [st EXCEPT !.log = Append(log, [endpoint |-> i, event |-> "push"]),
                            !.results = Append(st.results, result.response)],
                 result.store, result.taken, i + 1, expectGlobal)
          ELSE [multi |-> [st EXCEPT !.log = Append(log, [endpoint |-> i, event |-> "throw"]),
                                     !.failedAt = i],
                store |-> result.store]

SnapshotMultipleApisOfKeepGoing(store, endpoints, statuses, expectGlobal) ==
  ForEachEndpointKeepGoing([NoMulti EXCEPT !.called = TRUE, !.endpoints = endpoints,
                                           !.statuses = statuses, !.returned = TRUE],
                           store, <<>>, 1, expectGlobal)
\* snapshotMultipleApis(app, endpoints) against a store of snapshots and a
\* server that answers request i with statuses[i].
SnapshotMultipleApisOf(store, endpoints, statuses, expectGlobal) ==
  ForEachEndpoint([NoMulti EXCEPT !.called = TRUE, !.endpoints = endpoints,
                                  !.statuses = statuses],
                  store, <<>>, 1, expectGlobal)

\* await snapshotMultipleApis(app, endpoints), once in a test case.
SnapshotMultipleApis ==
  /\ ~snap.multi.called
  /\ \E endpoints \in EndpointLists, expectGlobal \in BOOLEAN :
       \E statuses \in [1..Len(endpoints) -> Statuses] :
         LET r == SnapshotMultipleApisOf(snapshots, endpoints, statuses, expectGlobal)
         IN /\ snap' = [NoSnap EXCEPT !.expectGlobal = expectGlobal, !.storeBefore = snapshots,
                                      !.multi = r.multi]
            /\ snapshots' = r.store
  /\ UNCHANGED <<mockVars, provider, data, defaultCalls, hist, out, testModule>>

NextMulti ==
  \/ EarlierRun
  \/ SnapshotMultipleApis

SpecMulti == InitFactory /\ [][NextMulti]_vars

NextSnapshot ==
  \/ EarlierRun
  \/ SnapshotApi

SpecSnapshot == InitFactory /\ [][NextSnapshot]_vars

\* ------------------------------------------------------------ the builders
\* createPartialMock(target, mockMethods)
CreatePartialMock ==
  /\ ~built
  /\ \E mockMethods \in NameLists :
       LET r == PartialMockOf(target, mockMethods, jestAvailable, stubs)
       IN /\ mock' = r.mock
          /\ stubs' = r.stubs
          /\ last' = [NoLast EXCEPT !.op = "createPartialMock", !.args = mockMethods]
  /\ built' = TRUE
  /\ UNCHANGED <<extVars, jestAvailable, target, other, created, nops>>

\* createMockProvider(target) or createMockProvider(target, customMocks), the
\* custom mocks being stubs of the surrogate the caller built before.
CreateMockProvider ==
  /\ ~provider.built
  /\ \E given \in BOOLEAN, keys \in SUBSET (DOMAIN mock) :
       /\ ~given => keys = {}
       /\ LET customMocks == [k \in keys |-> mock[k]]
              r == MockProviderOf(target, customMocks, jestAvailable, stubs)
          IN /\ provider' = [built |-> TRUE, provide |-> r.provide, useValue |-> r.useValue,
                             customMocks |-> customMocks, given |-> given,
                             firstFresh |-> Len(stubs) + 1]
             /\ stubs' = r.stubs
  /\ UNCHANGED <<mockVars_but_stubs, data, defaultCalls, hist, out, testModule, snapshots, snap>>

\* Classes with one prototype of every shape, and the classes of the tests.
BuildTargets == {c \in Chains : Len(c) = 1} \cup TestChains

InitBuild == InitCommon /\ target \in BuildTargets

NextBuild ==
  \/ CreateAutoMock
  \/ CreatePartialMock
  \/ CreateMockProvider

SpecBuild == InitBuild /\ [][NextBuild]_vars

\* ------------------------------------------------ two surrogates side by side
\* A second test case calls createAutoMock, on the same class or another one,
\* at any moment of the first one's run.
CreateAutoMockAgain ==
  /\ DOMAIN other = {}
  /\ \E chain \in TestChains :
       LET r == AutoMockOf(chain, jestAvailable, stubs)
       IN /\ other' = r.mock
          /\ stubs' = r.stubs
  /\ UNCHANGED <<extVars, jestAvailable, target, built, mock, created, nops, last>>

InitTwo == InitCommon /\ target \in TestChains

NextTwo ==
  \/ CreateAutoMock
  \/ CreateAutoMockAgain
  \/ (nops < MaxTwoOps /\ DoMockReturnValue)
  \/ (nops < MaxTwoOps /\ DoMockResolvedValue)
  \/ (nops < MaxTwoOps /\ DoMockRejectedValue)
  \/ (nops < MaxTwoOps /\ DoMockImplementation)
  \/ (nops < MaxTwoOps /\ DoInvoke)

SpecTwo == InitTwo /\ [][NextTwo]_vars

\* ------------------------------------------------- the provider's surrogate
\* descriptor.useValue[key](...args): a call through the surrogate of the
\* descriptor, as the container's clients make it.
CallThroughProvider ==
  /\ nops < MaxTwoOps
  /\ provider.built
  /\ \E key \in DOMAIN provider.useValue, args \in ArgLists :
       Invoke(provider.useValue[key], args)

\* The caller builds a surrogate, hands its stubs to createMockProvider,
\* configures them afterwards, and the surrogate of the descriptor is called.
NextProvider ==
  \/ CreateAutoMock
  \/ CreateMockProvider
  \/ (nops < MaxTwoOps /\ provider.built /\ DoMockReturnValue)
  \/ CallThroughProvider

SpecProvider == InitTwo /\ [][NextProvider]_vars

\* ---------------------------------------------- the two runtimes side by side
\* createAutoMock(target) run once where the runtime is missing and once where
\* it is found; afterwards every operation is made on both surrogates.
CreateAutoMockTwice ==
  /\ ~built
  /\ LET a == AutoMockOf(target, FALSE, stubs)
         b == AutoMockOf(target, TRUE, a.stubs)
     IN /\ mock' = a.mock
        /\ other' = b.mock
        /\ stubs' = b.stubs
        /\ created' = a.created
  /\ built' = TRUE
  /\ UNCHANGED <<extVars, jestAvailable, target, nops, last>>

ConfiguredBoth(key, op, value, r1, r2) ==
  /\ stubs' = [stubs EXCEPT ![mock[key]] = Logged(r1.stub, Cfg(op, value)),
                            ![other[key]] = Logged(r2.stub, Cfg(op, value))]
  /\ last' = [NoLast EXCEPT !.op = op, !.stub = mock[key], !.value = value,
                            !.returned = r1.ret]
  /\ nops' = nops + 1
  /\ UNCHANGED <<extVars, jestAvailable, target, built, mock, other, created>>

BothMockReturnValue ==
  /\ nops < MaxOps
  /\ \E key \in DOMAIN mock, value \in ConfigValues :
       ConfiguredBoth(key, "mockReturnValue", value,
                      MockReturnValue(stubs[mock[key]], mock[key], value),
                      MockReturnValue(stubs[other[key]], other[key], value))

BothMockResolvedValue ==
  /\ nops < MaxOps
  /\ \E key \in DOMAIN mock, value \in ConfigValues :
       ConfiguredBoth(key, "mockResolvedValue", value,
                      MockResolvedValue(stubs[mock[key]], mock[key], value),
                      MockResolvedValue(stubs[other[key]], other[key], value))

BothMockRejectedValue ==
  /\ nops < MaxOps
  /\ \E key \in DOMAIN mock, value \in ConfigValues :
       ConfiguredBoth(key, "mockRejectedValue", value,
                      MockRejectedValue(stubs[mock[key]], mock[key], value),
                      MockRejectedValue(stubs[other[key]], other[key], value))

BothMockImplementation ==
  /\ nops < MaxOps
  /\ \E key \in DOMAIN mock, g \in UserImpls :
       ConfiguredBoth(key, "mockImplementation", g,
                      MockImplementation(stubs[mock[key]], mock[key], UserImpl(g)),
                      MockImplementation(stubs[other[key]], other[key], UserImpl(g)))

BothInvoke ==
  /\ nops < MaxOps
  /\ \E key \in DOMAIN mock, args \in ArgLists :
       LET r1 == Call(stubs[mock[key]], args)
           r2 == Call(stubs[other[key]], args)
       IN /\ stubs' = [stubs EXCEPT ![mock[key]] = Invoked(r1.stub, r1.result),
                                    ![other[key]] = Invoked(r2.stub, r2.result)]
          /\ last' = [NoLast EXCEPT !.op = "call", !.stub = mock[key], !.args = args,
                                    !.result = r1.result]
  /\ nops' = nops + 1
  /\ UNCHANGED <<extVars, jestAvailable, target, built, mock, other, created>>

InitEquiv == InitCommon /\ target \in TestChains /\ jestAvailable = FALSE

NextEquiv ==
  \/ CreateAutoMockTwice
  \/ BothMockReturnValue
  \/ BothMockResolvedValue
  \/ BothMockRejectedValue
  \/ BothMockImplementation
  \/ BothInvoke

SpecEquiv == InitEquiv /\ [][NextEquiv]_vars

\* ================================================================ properties
\* A member in the sense of the specification: a method or a getter.
IsMember(descriptor) == descriptor \in {MethodDescriptor, GetterDescriptor}
Defines(k) == {d \in 1..Len(target) : target[d][k] # NoProperty}
\* The most-derived prototype that has k as an own property.
MostDerived(k) == CHOOSE d \in Defines(k) : \A e \in Defines(k) : d <= e
LastCfg(f) == f.cfgLog[Len(f.cfgLog)]
\* What a call must give under the behaviour mode set by configuration call c.
ModeResult(c, args) ==
  CASE c.op = "mockReturnValue" -> Sync(c.value)
    [] c.op = "mockResolvedValue" -> Fulfilled(c.value)
    [] c.op = "mockRejectedValue" -> Rejected(c.value)
    [] OTHER -> IF c.value = "constCustom" THEN Sync("custom")
                ELSE Sync(IF Len(args) >= 1 THEN args[1] ELSE Undefined)

\* C1 (as stated): the keys of createAutoMock(T) are exactly the names that some
\* prototype of T's chain defines as a method or getter.
C1_KeysAreAllChainMembers ==
  built => DOMAIN mock = {k \in MemberNames : \E d \in 1..Len(target) : IsMember(target[d][k])}

\* C1 (amended): the keys of createAutoMock(T) are exactly the names, other than
\* constructor, whose most-derived definition on T's chain is a method or a
\* getter, and each key holds one stub of its own, created once.
C1_KeysAreMostDerivedMembers ==
  built =>
    /\ DOMAIN mock = {k \in MemberNames : Defines(k) # {} /\ IsMember(target[MostDerived(k)][k])}
    /\ \A k \in DOMAIN mock : mock[k] \in 1..Len(stubs) /\ created[k] = 1
    /\ \A k \in MemberNames \ DOMAIN mock : created[k] = 0
    /\ \A k1, k2 \in DOMAIN mock : k1 # k2 => mock[k1] # mock[k2]
    /\ Len(stubs) = Cardinality(DOMAIN mock)

\* C1 witness: x is a method of the base but a setter of the derived class, y a
\* getter inherited from the base; the surrogate has y only.
C1_Witness ==
  /\ built
  /\ Len(target) = 2
  /\ target[1]["x"] = SetterDescriptor /\ target[2]["x"] = MethodDescriptor
  /\ target[1]["y"] = NoProperty /\ target[2]["y"] = GetterDescriptor
  /\ DOMAIN mock = {"y"}

\* C2: when the class and an ancestor both define member x, the surrogate has
\* one stub under x, created once, during the walk over the class itself, and
\* the stub holds no implementation: called unconfigured it returns undefined.
C2_ShadowedNameHasOneStub ==
  built =>
    \A k \in MemberNames :
      (/\ IsMember(target[1][k])
       /\ \E d \in 2..Len(target) : IsMember(target[d][k]))
      => /\ k \in DOMAIN mock
         /\ created[k] = 1
         /\ stubs[mock[k]].origin = 1
         /\ stubs[mock[k]].impl = NoImpl
         /\ stubs[mock[k]].mockImplementationFn = NoImpl
         /\ (last.op = "call" /\ last.stub = mock[k] => last.result = Sync(Undefined))

\* C2 witness: derived and base class both have a method x, and the stub under
\* x has been called.
C2_Witness ==
  /\ built
  /\ Len(target) = 2
  /\ target[1]["x"] = MethodDescriptor /\ target[2]["x"] = MethodDescriptor
  /\ last.op = "call" /\ last.stub = mock["x"]

\* C3: every stub's invocation log has one entry per invocation, the last entry
\* being the argument list of the last call.
C3_LogRecordsEveryCall ==
  \A id \in 1..Len(stubs) :
    /\ Len(stubs[id].calls) = stubs[id].invocations
    /\ (last.op = "call" /\ last.stub = id => stubs[id].calls[Len(stubs[id].calls)] = last.args)

\* C4: a call to a stub whose most recent configuration is mockReturnValue(v)
\* returns v synchronously.
C4_ReturnValueReturned ==
  (last.op = "call" /\ stubs[last.stub].cfgLog # <<>>
     /\ LastCfg(stubs[last.stub]).op = "mockReturnValue")
  => last.result = Sync(LastCfg(stubs[last.stub]).value)

\* C5: a call to a stub whose most recent configuration is mockResolvedValue(v)
\* returns a promise fulfilled with v.
C5_ResolvedValueFulfils ==
  (last.op = "call" /\ stubs[last.stub].cfgLog # <<>>
     /\ LastCfg(stubs[last.stub]).op = "mockResolvedValue")
  => last.result = Fulfilled(LastCfg(stubs[last.stub]).value)

\* C6: mockRejectedValue(e) returns normally, and a call to a stub whose most
\* recent configuration is mockRejectedValue(e) returns a promise rejected with e.
C6_RejectedValueRejects ==
  /\ last.op = "mockRejectedValue" => last.returned = last.stub
  /\ (last.op = "call" /\ stubs[last.stub].cfgLog # <<>>
        /\ LastCfg(stubs[last.stub]).op = "mockRejectedValue")
     => last.result = Rejected(LastCfg(stubs[last.stub]).value)

\* C7: the result of a call is the one of the mode set by the most recent
\* configuration call, whatever was configured before.
C7_LastConfigurationWins ==
  (last.op = "call" /\ stubs[last.stub].cfgLog # <<>>)
  => last.result = ModeResult(LastCfg(stubs[last.stub]), last.args)

\* C8: after mockReturnValue(v) followed by mockImplementation(g), a call
\* f(args) returns g(args).
C8_ImplementationReplacesReturnValue ==
  (last.op = "call" /\ Len(stubs[last.stub].cfgLog) = 2
     /\ stubs[last.stub].cfgLog[1].op = "mockReturnValue"
     /\ stubs[last.stub].cfgLog[2].op = "mockImplementation")
  => last.result = ModeResult(stubs[last.stub].cfgLog[2], last.args)

\* C8 witness: a fallback stub given mockReturnValue("v1"), then
\* mockImplementation(firstArg), called with ("arg1") returns "arg1".
C8_Witness ==
  /\ last.op = "call" /\ last.args = <<"arg1">>
  /\ stubs[last.stub].runtime = "fallback"
  /\ stubs[last.stub].cfgLog = <<Cfg("mockReturnValue", "v1"), Cfg("mockImplementation", "firstArg")>>
  /\ last.result = Sync("arg1")

\* C9: a fallback stub and a stub of the external runtime that received the
\* same configuration calls and invocations gave the same last result and hold
\* the same invocation log.
C9_FallbackEquivalentToRuntime ==
  \A k \in DOMAIN other :
    /\ stubs[mock[k]].lastResult = stubs[other[k]].lastResult
    /\ stubs[mock[k]].calls = stubs[other[k]].calls

\* C10: each of the four configuration operations returns the stub it was
\* called on.
C10_ConfigurationReturnsSelf ==
  last.op \in ConfigOps => last.returned = last.stub

\* C10 witness: a second configuration call on a fallback stub, each of the
\* four operations in turn, has returned that stub.
C10_Witness ==
  /\ last.op = "mockRejectedValue"
  /\ stubs[last.stub].runtime = "fallback"
  /\ Len(stubs[last.stub].cfgLog) = 2
  /\ stubs[last.stub].cfgLog[1].op = "mockReturnValue"
  /\ last.returned = last.stub

\* Every key of the two surrogates holds a stub function of its own.
AllDistinct ==
  /\ \A k1, k2 \in DOMAIN mock : k1 # k2 => mock[k1] # mock[k2]
  /\ \A k1, k2 \in DOMAIN other : k1 # k2 => other[k1] # other[k2]
  /\ \A k1 \in DOMAIN mock, k2 \in DOMAIN other : mock[k1] # other[k2]

\* C11: the stubs of two createAutoMock calls, and of one call, are pairwise
\* distinct, and a configuration call or invocation changes the fields and the
\* log of no stub but the one it is made on.
C11_StubsAreIndependent ==
  [][/\ AllDistinct'
     /\ \A id \in 1..Len(stubs) :
          \/ stubs'[id] = stubs[id]
          \/ (nops' = nops + 1 /\ last'.stub = id)]_vars

\* C11 witness: two surrogates; a stub of the first was called, the stub under
\* the same key of the second configured, and neither shows the other's use.
C11_Witness ==
  \E k \in DOMAIN mock \cap DOMAIN other :
    /\ stubs[mock[k]].invocations = 1 /\ stubs[mock[k]].cfgLog = <<>>
    /\ stubs[other[k]].invocations = 0 /\ Len(stubs[other[k]].cfgLog) = 1

\* The keys createAutoMock gives the class (C1).
AutoKeys ==
  {k \in MemberNames : Defines(k) # {} /\ IsMember(target[MostDerived(k)][k])}

\* C12: the surrogate of createPartialMock(T, names) has exactly the requested
\* names as keys, whatever T is, each holding a new stub function of its own.
C12_PartialMockHasRequestedNames ==
  last.op = "createPartialMock" =>
    /\ built
    /\ DOMAIN mock = {last.args[i] : i \in 1..Len(last.args)}
    /\ \A k \in DOMAIN mock :
         /\ mock[k] \in 1..Len(stubs)
         /\ stubs[mock[k]].invocations = 0 /\ stubs[mock[k]].cfgLog = <<>>
    /\ \A k1, k2 \in DOMAIN mock : k1 # k2 => mock[k1] # mock[k2]

\* C12 witness: ["z", "x"] was requested of a class that has a method y and no
\* member z; the surrogate has z and x, and no y.
C12_Witness ==
  /\ last.op = "createPartialMock" /\ last.args = <<"z", "x">>
  /\ target[1]["y"] = MethodDescriptor
  /\ DOMAIN mock = {"x", "z"}

\* C13: the descriptor of createMockProvider(T, customStubs) provides T; its
\* surrogate holds the caller's stub under every key of customStubs and a
\* stub created by this call under every other member of T, and nothing else.
C13_ProviderOverlaysCustomMocks ==
  provider.built =>
    /\ provider.provide = target
    /\ DOMAIN provider.useValue = AutoKeys \cup DOMAIN provider.customMocks
    /\ \A a \in DOMAIN provider.customMocks : provider.useValue[a] = provider.customMocks[a]
    /\ \A k \in DOMAIN provider.useValue \ DOMAIN provider.customMocks :
         /\ provider.useValue[k] \in provider.firstFresh..Len(stubs)
         /\ \A j \in DOMAIN provider.useValue : j # k => provider.useValue[j] # provider.useValue[k]
    /\ ~provider.given => DOMAIN provider.useValue = AutoKeys

\* C13 witness: the caller's stub for x was handed in; the descriptor holds it
\* under x and a new stub under y.
C13_Witness ==
  /\ provider.built /\ provider.given
  /\ DOMAIN provider.customMocks = {"x"}
  /\ DOMAIN provider.useValue = {"x", "y"}
  /\ provider.useValue["x"] = mock["x"]
  /\ provider.useValue["y"] >= provider.firstFresh

\* The value a shallow merge of the objects of list os, in order, over base
\* gives key k: that of the latest object that has k, else the base's.
Holders(os, k) == {i \in 1..Len(os) : k \in DOMAIN os[i]}
Latest(os, k) == CHOOSE i \in Holders(os, k) : \A j \in Holders(os, k) : j <= i
MergedKeys(base, os) == DOMAIN base \cup UNION {DOMAIN os[i] : i \in 1..Len(os)}
MergedValue(base, os, k) ==
  IF Holders(os, k) # {} THEN os[Latest(os, k)][k] ELSE base[k]
IsMergeOf(item, base, os) ==
  /\ DOMAIN item = MergedKeys(base, os)
  /\ \A k \in DOMAIN item : item[k] = MergedValue(base, os, k)
\* The overrides given to with() since construction or the last reset().
WithsOf(h) ==
  LET ws == SelectSeq(h, LAMBDA x : x.op = "with")
  IN [i \in 1..Len(ws) |-> ws[i].overrides]
OnlyWiths(h) == \A i \in 1..Len(h) : h[i].op \in {"with", "reset"}

\* C14: with() returns the factory, and after with(o1), ..., with(on) since
\* construction or the last reset, create() returns a fresh default() result
\* overlaid by o1..on in order.
C14_CreateMergesOverridesInOrder ==
  /\ out.op = "with" => out.self
  /\ (out.op = "create" /\ OnlyWiths(hist))
     => IsMergeOf(out.item, DefaultOf(out.callsAfter), WithsOf(hist))

\* C14 witness: with({name: 1, id: 1}) then with({name: 2}), then create()
\* gave id 1 and name 2.
C14_Witness ==
  /\ out.op = "create"
  /\ Len(hist) = 2 /\ hist[1].op = "with" /\ hist[2].op = "with"
  /\ hist[1].overrides = [id |-> 1, name |-> 1] /\ hist[2].overrides = [name |-> 2]
  /\ out.item = [id |-> 1, name |-> 2]

\* C15: createMany(count), count >= 2, applies the accumulated overrides to
\* the first item only; every later item consists of default values.
C15_OverridesReachFirstItemOnly ==
  (out.op = "createMany" /\ out.count >= 2)
  => /\ IsMergeOf(out.items[1], DefaultOf(out.callsBefore + 1), <<out.dataBefore>>)
     /\ \A i \in 2..out.count : out.items[i] = DefaultOf(out.callsBefore + i)

\* C15 witness: with({name: 1}) then createMany(2): the first item has name 1,
\* the second the default name.
C15_Witness ==
  /\ out.op = "createMany" /\ out.count = 2
  /\ out.dataBefore = [name |-> 1]
  /\ out.items[1]["name"] = 1 /\ out.items[2]["name"] = 0

\* C16 as stated: createMany(count) returns count items, calls default() count
\* times, and the items' identifiers are pairwise distinct.
C16_ItemsHaveDistinctIds ==
  out.op = "createMany"
  => /\ Len(out.items) = out.count
     /\ out.callsAfter = out.callsBefore + out.count
     /\ \A i, j \in 1..Len(out.items) : i # j => out.items[i]["id"] # out.items[j]["id"]

\* C16: createMany(count) returns count items and calls default() count
\* times, once per item; the identifiers default() produced are pairwise
\* distinct, and so are the items' identifiers when the accumulated overrides
\* hold no identifier.
C16_CreateManyMakesCountItems ==
  out.op = "createMany"
  => /\ Len(out.items) = out.count
     /\ out.callsAfter = out.callsBefore + out.count
     /\ \A i \in 2..Len(out.items) : out.items[i]["id"] = DefaultOf(out.callsBefore + i)["id"]
     /\ \A i, j \in 1..Len(out.items) :
          i # j => DefaultOf(out.callsBefore + i)["id"] # DefaultOf(out.callsBefore + j)["id"]
     /\ "id" \notin DOMAIN out.dataBefore
        => \A i, j \in 1..Len(out.items) : i # j => out.items[i]["id"] # out.items[j]["id"]

\* C16 witness: with({id: 2}) then createMany(2) on a new factory: two items,
\* two default() calls, and both items have identifier 2.
C16_Witness ==
  /\ out.op = "createMany" /\ out.count = 2 /\ out.callsBefore = 0 /\ out.callsAfter = 2
  /\ out.dataBefore = [id |-> 2]
  /\ Len(out.items) = 2 /\ out.items[1]["id"] = 2 /\ out.items[2]["id"] = 2

\* C17: reset() returns the factory and empties the accumulated overrides:
\* create() right after it returns default values only.
C17_ResetClearsOverrides ==
  /\ out.op = "reset" => out.self /\ data = EmptyObject
  /\ (out.op = "create" /\ Len(hist) = 1 /\ hist[1].op = "reset")
     => out.item = DefaultOf(out.callsAfter)

\* C17 witness: overrides {name: 1} were accumulated, then reset() and
\* create(): the item has the default name.
C17_Witness ==
  /\ out.op = "create"
  /\ hist = <<HistEntry("reset", [name |-> 1])>>
  /\ out.item["name"] = 0

\* C18: createTestData(defaults, overrides) is defaults overlaid by overrides
\* (by nothing when overrides is omitted); the function of createFactory(d)
\* calls d() once per call and returns its fresh result overlaid by the
\* overrides of that call alone.
C18_PureMerges ==
  /\ out.op = "createTestData"
     => IsMergeOf(out.item, out.defaults, IF out.given THEN <<out.overrides>> ELSE <<>>)
  /\ out.op = "factoryFn"
     => /\ out.callsAfter = out.callsBefore + 1
        /\ IsMergeOf(out.item, DefaultOf(out.callsAfter),
                      IF out.given THEN <<out.overrides>> ELSE <<>>)

\* C18 witness: createTestData({id: 1, name: 1}, {name: 2}) gave
\* {id: 1, name: 2}.
C18_Witness ==
  /\ out.op = "createTestData" /\ out.given
  /\ out.defaults = [id |-> 1, name |-> 1] /\ out.overrides = [name |-> 2]
  /\ out.item = [id |-> 1, name |-> 2]

\* An entry createTestModule can register: one with a strategy.
HasStrategy(o) ==
  o.useValue # Undefined \/ o.useClass # Undefined \/ o.useFactory # Undefined
EntriesFor(overrides, token) ==
  {i \in 1..Len(overrides) : overrides[i].provide = token /\ HasStrategy(overrides[i])}
LastEntryFor(overrides, token) ==
  CHOOSE i \in EntriesFor(overrides, token) : \A j \in EntriesFor(overrides, token) : j <= i
CompileIsLast(events) ==
  /\ events # <<>>
  /\ \A i \in 1..Len(events) : events[i] = "compile" <=> i = Len(events)

\* C19 as stated: every entry of options.overrides is registered once, in
\* list order and before compile(), and for every entry with a useValue the
\* compiled container gives that useValue for the entry's token.
C19_EveryEntryRegistered ==
  testModule.called
  => /\ Len(testModule.registered) = Len(testModule.overrides)
     /\ \A i \in 1..Len(testModule.registered) :
          testModule.registered[i].provide = testModule.overrides[i].provide
     /\ CompileIsLast(testModule.events)
     /\ \A i \in 1..Len(testModule.overrides) :
          testModule.overrides[i].useValue # Undefined
          => testModule.instances[testModule.overrides[i].provide]
             = [kind |-> "useValue", val |-> testModule.overrides[i].useValue]

\* C19: the entries with a useValue other than undefined, a useClass or a
\* useFactory are registered once each, in list order and before compile(),
\* the others are skipped; a token whose last registered entry has a useValue
\* resolves to exactly that useValue, and a token without a registered entry
\* keeps the real provider.
C19_EntriesWithStrategyRegistered ==
  testModule.called
  => LET usable == SelectSeq(testModule.overrides, HasStrategy)
     IN /\ Len(testModule.registered) = Len(usable)
        /\ \A i \in 1..Len(usable) : testModule.registered[i].provide = usable[i].provide
        /\ Len(testModule.events) = Len(usable) + 1
        /\ CompileIsLast(testModule.events)
        /\ \A t \in Tokens :
             IF EntriesFor(testModule.overrides, t) = {}
             THEN testModule.instances[t] = [kind |-> "real", val |-> t]
             ELSE LET o == testModule.overrides[LastEntryFor(testModule.overrides, t)]
                  IN o.useValue # Undefined
                     => testModule.instances[t] = [kind |-> "useValue", val |-> o.useValue]
        /\ testModule.asked # Undefined => testModule.got = testModule.instances[testModule.asked]

\* C19 witness: an entry for UserService without a strategy, then one for
\* ConfigService with a useValue and a useClass: one registration, and
\* UserService stays real.
C19_Witness ==
  /\ testModule.called
  /\ Len(testModule.overrides) = 2
  /\ testModule.overrides[1].provide = "UserService" /\ ~HasStrategy(testModule.overrides[1])
  /\ testModule.overrides[2].provide = "ConfigService"
  /\ testModule.overrides[2].useValue = "mockObject"
  /\ testModule.overrides[2].useClass = "MockClass"
  /\ Len(testModule.registered) = 1
  /\ testModule.instances["ConfigService"] = [kind |-> "useValue", val |-> "mockObject"]
  /\ testModule.instances["UserService"] = [kind |-> "real", val |-> "UserService"]

\* Position of an event in the list of a call's events, 0 when absent.
PositionOf(events, ev) ==
  IF \E i \in 1..Len(events) : events[i] = ev
  THEN CHOOSE i \in 1..Len(events) : events[i] = ev
  ELSE 0
StatusMatches == snap.response.status = ExpectedStatusOf(snap.options)
SnapshotTaken == PositionOf(snap.events, "snapshot") # 0
StatusFirst ==
  SnapshotTaken
  => /\ PositionOf(snap.events, "assertStatus") # 0
     /\ PositionOf(snap.events, "assertStatus") < PositionOf(snap.events, "snapshot")
NothingRecorded == ~SnapshotTaken /\ snapshots = snap.storeBefore /\ ~snap.returned

\* C20 as stated: the status is asserted before the snapshot; a differing
\* status fails the call with no snapshot and no response; a matching one has
\* the snapshot taken and the response returned.
C20_MatchingStatusReturnsResponse ==
  snap.called
  => /\ StatusFirst
     /\ ~StatusMatches => NothingRecorded
     /\ StatusMatches => SnapshotTaken /\ snap.returned

\* C20: where the global expect exists, the status (expected: 200 by
\* default) is asserted before the snapshot; a differing status fails the
\* call with no snapshot and no response; a matching one has the snapshot
\* taken, and the response is returned exactly when the data is new under
\* its name or equal to the stored snapshot. Without the global expect the
\* call fails after the request.
C20_StatusAssertedBeforeSnapshot ==
  snap.called
  => /\ StatusFirst
     /\ ~snap.expectGlobal => snap.events = <<"request">> /\ NothingRecorded
     /\ (snap.expectGlobal /\ ~StatusMatches)
        => snap.events = <<"request", "assertStatus">> /\ NothingRecorded
     /\ (snap.expectGlobal /\ StatusMatches)
        => /\ snap.events = <<"request", "assertStatus", "snapshot">>
           /\ snap.returned
              <=> \A e \in snap.storeBefore : e.name = snap.name => e.data = snap.data
           /\ snap.returned
              => \E e \in snapshots : e.name = snap.name /\ e.data = snap.data
           /\ ~snap.returned => snapshots = snap.storeBefore

\* C20 witness: status 404 was expected and received, the snapshot was
\* compared with a different one stored under its name, and no response was
\* returned.
C20_Witness ==
  /\ snap.called /\ snap.expectGlobal
  /\ snap.options.expectedStatus = "404" /\ snap.response.status = "404"
  /\ SnapshotTaken
  /\ \E e \in snap.storeBefore : e.name = snap.name /\ e.data # snap.data
  /\ snap.outcome = "snapshotMismatch" /\ ~snap.returned

\* The name the call generates from its method and url: the method, an
\* underscore, and the url with an underscore for every character that is
\* neither a letter nor a digit.
HasGeneratedName ==
  /\ Len(snap.name) = Len(snap.url) + 2
  /\ snap.name[1] = (IF snap.options.method = Undefined THEN "GET" ELSE snap.options.method)
  /\ snap.name[2] = "_"
  /\ \A i \in 1..Len(snap.url) :
       snap.name[i + 2] = (IF snap.url[i] \in AlphaNumerics THEN snap.url[i] ELSE "_")
RecordedUnderName ==
  snap.returned => \E e \in snapshots : e.name = snap.name /\ e.data = snap.data

\* C21 as stated: the snapshot goes under snapshotName whenever the caller
\* gave one, otherwise under the generated name.
C21_GivenNameAlwaysUsed ==
  SnapshotTaken
  => /\ RecordedUnderName
     /\ IF snap.options.snapshotName # Undefined
        THEN snap.name = <<snap.options.snapshotName>>
        ELSE HasGeneratedName

\* C21: the snapshot goes under snapshotName when the caller gave a non-empty
\* one, otherwise (none or the empty string) under the generated name, which
\* keeps the length of the url.
C21_NonEmptyNameUsed ==
  SnapshotTaken
  => /\ RecordedUnderName
     /\ IF snap.options.snapshotName \notin {Undefined, ""}
        THEN snap.name = <<snap.options.snapshotName>>
        ELSE HasGeneratedName

\* C21 witness: GET on /u/7 with the empty string as snapshotName was
\* recorded under GET__u_7.
C21_Witness ==
  /\ snap.returned /\ snap.options.snapshotName = ""
  /\ snap.options.method = "GET" /\ snap.url = <<"/", "u", "/", "7">>
  /\ snap.name = <<"GET", "_", "_", "u", "_", "7">>
  /\ \E e \in snapshots : e.name = snap.name

\* The places of the events of endpoint i in the log of a list call.
PlacesOf(log, i, ev) == {j \in 1..Len(log) : log[j].endpoint = i /\ log[j].event = ev}
AllPlacesOf(log, i) == {j \in 1..Len(log) : log[j].endpoint = i}
\* Endpoint i went through request, status assertion and snapshot, in that
\* order, and its response was pushed.
Completed(log, i) ==
  \E a, b, c, d \in AllPlacesOf(log, i) :
    /\ a < b /\ b < c /\ c < d
    /\ log[a].event = "request" /\ log[b].event = "assertStatus"
    /\ log[c].event = "snapshot" /\ log[d].event = "push"

\* C22: snapshotMultipleApis takes the endpoints in order: the request of an
\* endpoint comes after the request, status assertion and snapshot of every
\* endpoint before it; on success there is one result per endpoint, result i
\* being the response of endpoint i; after a failing endpoint no request is
\* issued and nothing is returned.
C22_EndpointsInOrder ==
  snap.multi.called
  => LET m == snap.multi
     IN /\ \A i \in 1..Len(m.endpoints) : Cardinality(PlacesOf(m.log, i, "request")) <= 1
        /\ \A i \in 2..Len(m.endpoints) : \A j \in PlacesOf(m.log, i, "request") :
             \A h \in 1..(i - 1) :
               /\ Completed(m.log, h)
               /\ \A k \in AllPlacesOf(m.log, h) : k < j
        /\ m.returned
           => /\ m.failedAt = 0
              /\ Len(m.results) = Len(m.endpoints)
              /\ \A i \in 1..Len(m.endpoints) :
                   /\ m.results[i] = ResponseOf(m.statuses[i])
                   /\ Completed(m.log, i)
        /\ ~m.returned
           => /\ m.failedAt \in 1..Len(m.endpoints)
              /\ ~Completed(m.log, m.failedAt)
              /\ \A i \in (m.failedAt + 1)..Len(m.endpoints) : AllPlacesOf(m.log, i) = {}

\* C22 witness: of two endpoints the first was answered 404 where 200 was
\* expected: the call failed at endpoint 1 and endpoint 2 was never requested.
C22_Witness ==
  /\ snap.multi.called /\ snap.expectGlobal
  /\ Len(snap.multi.endpoints) = 2
  /\ snap.multi.statuses = <<"404", "200">>
  /\ snap.multi.endpoints[1].options.expectedStatus = Undefined
  /\ snap.multi.failedAt = 1 /\ ~snap.multi.returned
  /\ PlacesOf(snap.multi.log, 1, "request") # {}
  /\ PlacesOf(snap.multi.log, 2, "request") = {}

\* Two endpoints, both answered as expected, gave two results in the order
\* of the list.
C22_SuccessReached ==
  /\ snap.multi.returned /\ Len(snap.multi.endpoints) = 2
  /\ snap.multi.statuses = <<"404", "200">>
  /\ snap.multi.results = <<ResponseOf("404"), ResponseOf("200")>>

\* The call issued one request, with the method asked for, GET when none.
OneRequestWithMethod ==
  /\ Cardinality({i \in 1..Len(snap.events) : snap.events[i] = "request"}) = 1
  /\ snap.request.url = snap.url
  /\ snap.request.verb = (IF snap.options.method = Undefined THEN "GET" ELSE snap.options.method)
BodyMethod == snap.request.verb \in {"POST", "PUT", "PATCH"}
BodySent == snap.request.body # Undefined

\* C23 as stated: one request per call, with the method asked for, and a
\* supplied body is attached exactly when the method is POST, PUT or PATCH.
C23_SuppliedBodySentByMethod ==
  snap.called
  => /\ OneRequestWithMethod
     /\ BodySent <=> (snap.options.body # Undefined /\ BodyMethod)
     /\ BodySent => snap.request.body = snap.options.body

\* C23: one request per call, with the method asked for, and a supplied body
\* is attached exactly when it is not falsy and the method is POST, PUT or
\* PATCH; with GET and DELETE no body is ever sent.
C23_TruthyBodySentByMethod ==
  snap.called
  => /\ OneRequestWithMethod
     /\ BodySent <=> (snap.options.body \notin {Undefined, ""} /\ BodyMethod)
     /\ BodySent => snap.request.body = snap.options.body
     /\ snap.request.verb \in {"GET", "DELETE"} => ~BodySent

\* C23 witness: a POST whose supplied body is the empty string went out
\* without a body.
C23_Witness ==
  /\ snap.called
  /\ snap.options.method = "POST" /\ snap.options.body = ""
  /\ snap.request.verb = "POST" /\ ~BodySent

\* A PATCH with a body went out with it.
C23_BodyAttachedReached ==
  /\ snap.called /\ snap.options.method = "PATCH" /\ snap.options.body = "payload"
  /\ snap.request.body = "payload"

BodyAlone(d, res) == d.body = res.body /\ d.status = "none" /\ d.headers = Undefined
FullResponse(d, res) ==
  d.body = res.body /\ d.status = res.status /\ d.headers = res.headers

\* C24: the data snapshotted is the body of the response alone unless
\* snapshotFullResponse is true, and then its status, headers and body; a
\* successful call takes one snapshot, and leaves one stored snapshot of
\* that data under its name.
C24_SnapshotData ==
  /\ SnapshotTaken
     => /\ snap.response = ResponseOf(snap.response.status)
        /\ IF snap.options.snapshotFullResponse
           THEN FullResponse(snap.data, snap.response)
           ELSE BodyAlone(snap.data, snap.response)
  /\ (snap.called /\ snap.returned)
     => /\ Cardinality({i \in 1..Len(snap.events) : snap.events[i] = "snapshot"}) = 1
        /\ {e.data : e \in {x \in snapshots : x.name = snap.name}} = {snap.data}
        /\ Cardinality(snapshots \ snap.storeBefore) <= 1
        /\ snap.storeBefore \subseteq snapshots

\* C24 witness: a successful call with snapshotFullResponse on a 404
\* response stored status, headers and body under a new name.
C24_Witness ==
  /\ snap.called /\ snap.returned /\ snap.options.snapshotFullResponse
  /\ snap.response.status = "404"
  /\ snap.data = [status |-> "404", headers |-> "content-type", body |-> "notFound"]
  /\ Cardinality(snapshots \ snap.storeBefore) = 1

\* A successful call without snapshotFullResponse stored the body alone.
C24_BodyAloneReached ==
  /\ snap.called /\ snap.returned /\ ~snap.options.snapshotFullResponse
  /\ snap.data.body = "found" /\ snap.data.status = "none"

\* The names Object.prototype owns and no prototype of the class defines.
OnlyOnObjectPrototype ==
  {k \in StubbableNames : ObjectPrototype[k] # NoProperty /\ Defines(k) = {}}
\* The names whose most-derived definition on the chain is a data property.
DataFields ==
  {k \in StubbableNames : Defines(k) # {} /\ target[MostDerived(k)][k] = DataDescriptor}
NoMethodOrGetter ==
  \A d \in 1..Len(target) : \A k \in StubbableNames : ~IsMember(target[d][k])

\* C25: the surrogate of createAutoMock never has the key constructor, a
\* name found on Object.prototype alone, or a name whose definition is a data
\* property; for a class without methods and getters, own or inherited, it
\* is returned empty.
C25_SurrogateExcludes ==
  built
  => /\ "constructor" \notin DOMAIN mock
     /\ DOMAIN mock \cap OnlyOnObjectPrototype = {}
     /\ DOMAIN mock \cap DataFields = {}
     /\ NoMethodOrGetter => mock = EmptyMock /\ stubs = <<>>

\* C25 witness: a class whose prototype has a data property and no method,
\* under a parent with a setter alone: the surrogate is empty, toString of
\* Object.prototype is not in it.
C25_Witness ==
  /\ built
  /\ target = <<Proto(DataDescriptor, NoProperty), Proto(NoProperty, SetterDescriptor)>>
  /\ "toString" \in OnlyOnObjectPrototype
  /\ mock = EmptyMock

\* C26: every stub function of a surrogate of createPartialMock has the four
\* configuration functions mockReturnValue, mockResolvedValue,
\* mockRejectedValue and mockImplementation, with the external runtime and
\* without it.
C26_PartialStubsAreFull ==
  last.op = "createPartialMock"
  => \A k \in DOMAIN mock : stubs[mock[k]].configFns = ConfigOps

\* The stubs createMockProvider generated and the caller's stubs replaced.
ReplacedStubs ==
  {j \in provider.firstFresh..Len(stubs) : \A k \in DOMAIN provider.useValue : provider.useValue[k] # j}
\* The surrogate holds the caller's stub itself under key k, the last
\* configuration of that stub decides what a call through the surrogate
\* gives, and the generated stub it replaced is never called.
AliasesCallerStub(k) ==
  LET id == provider.customMocks[k]
  IN /\ provider.useValue[k] = id
     /\ (last.op = "call" /\ last.stub = id /\ stubs[id].cfgLog # <<>>)
        => last.result = ModeResult(LastCfg(stubs[id]), last.args)
     /\ \A j \in ReplacedStubs : stubs[j].invocations = 0 /\ stubs[j].calls = <<>>
ProviderAliasesCallerStubs ==
  provider.built => \A k \in DOMAIN provider.customMocks : AliasesCallerStub(k)

\* C27: the surrogate of the descriptor of createMockProvider holds the
\* caller's stubs themselves: a configuration made on a caller's stub after
\* the merge decides the calls made through the surrogate, every such call
\* is in the invocation log of the caller's stub, and the generated stub
\* replaced under the key is never called.
C27_CallsThroughProviderLogged ==
  provider.built
  => \A k \in DOMAIN provider.customMocks :
       /\ AliasesCallerStub(k)
       /\ Len(stubs[provider.customMocks[k]].calls) = stubs[provider.customMocks[k]].invocations

\* A caller's stub was configured after the merge and called through the
\* surrogate, which gave the configured value.
ProviderCallReached ==
  /\ provider.built /\ last.op = "call" /\ last.result = Sync("v1")
  /\ \E k \in DOMAIN provider.customMocks : last.stub = provider.customMocks[k]

\* C28: whether a name gets a stub is decided by the most-derived prototype
\* that defines it, and by that one alone: the name has a stub exactly when
\* that definition is a method or a getter, the stub is made at that
\* prototype, and a data property or setter-only accessor there hides a
\* method or getter of an ancestor.
C28_MostDerivedDefinitionDecides ==
  built
  => \A k \in MemberNames :
       /\ Defines(k) = {} => k \notin DOMAIN mock
       /\ Defines(k) # {}
          => /\ k \in DOMAIN mock <=> IsMember(target[MostDerived(k)][k])
             /\ k \in DOMAIN mock => stubs[mock[k]].origin = MostDerived(k)
             /\ target[MostDerived(k)][k] \in {DataDescriptor, SetterDescriptor}
                => k \notin DOMAIN mock /\ created[k] = 0

\* C28 witness: the class defines x as a setter alone and y as a data
\* property, its parent defines x as a method and y as a getter: the
\* surrogate has neither.
C28_Witness ==
  /\ built
  /\ target = <<Proto(SetterDescriptor, DataDescriptor), Proto(MethodDescriptor, GetterDescriptor)>>
  /\ mock = EmptyMock /\ stubs = <<>>

\* C29: the accumulated overrides after materializing: create() leaves them
\* as they were, createMany(count) with count >= 1 leaves them empty,
\* createMany(0) returns the empty list and leaves them as they were.
C29_OverridesAfterMaterializing ==
  /\ out.op = "create"
     => data = out.dataBefore /\ out.item = Merge(DefaultOf(out.callsAfter), data)
  /\ (out.op = "createMany" /\ out.count >= 1) => data = EmptyObject
  /\ (out.op = "createMany" /\ out.count = 0)
     => out.items = <<>> /\ data = out.dataBefore /\ out.callsAfter = out.callsBefore

\* C29 witness: with({name: 1}) then createMany(0): no item, and the
\* override is still there.
C29_Witness ==
  /\ out.op = "createMany" /\ out.count = 0 /\ out.items = <<>>
  /\ hist = <<HistEntry("with", [name |-> 1])>>
  /\ data = [name |-> 1]

\* Overrides were set, and createMany(2) left none.
C29_ClearedReached ==
  /\ out.op = "createMany" /\ out.count = 2
  /\ out.dataBefore = [name |-> 1] /\ data = EmptyObject

\* The one registration an entry with a strategy must lead to.
IsChoiceOf(r, o) ==
  /\ r.provide = o.provide
  /\ o.useValue # Undefined
     => r.strategy = "useValue" /\ r.value = o.useValue
  /\ (o.useValue = Undefined /\ o.useClass # Undefined)
     => r.strategy = "useClass" /\ r.value = o.useClass
  /\ (o.useValue = Undefined /\ o.useClass = Undefined)
     => /\ r.strategy = "useFactory" /\ r.value = o.useFactory
        /\ r.inject = (IF o.inject = Undefined THEN "[]" ELSE o.inject)

\* C30: every entry of options.overrides leads to at most one registration:
\* by useValue when that is not undefined (null included), else by useClass
\* when set, else by useFactory when set, inject being the empty list when
\* omitted; an entry with none of them leads to none, the module is compiled
\* all the same, and a token with such entries alone keeps its real provider.
C30_OneStrategyByPrecedence ==
  testModule.called
  => LET usable == SelectSeq(testModule.overrides, HasStrategy)
     IN /\ Len(testModule.registered) = Len(usable)
        /\ \A i \in 1..Len(usable) : IsChoiceOf(testModule.registered[i], usable[i])
        /\ PositionOf(testModule.events, "compile") = Len(testModule.events)
        /\ \A t \in Tokens :
             EntriesFor(testModule.overrides, t) = {}
             => testModule.instances[t] = [kind |-> "real", val |-> t]

\* C30 witness: an entry with useValue null and a useClass is registered by
\* useValue, the entry after it, with useValue undefined and nothing else,
\* is skipped.
C30_Witness ==
  /\ testModule.called /\ Len(testModule.overrides) = 2
  /\ testModule.overrides[1].provide = "UserService"
  /\ testModule.overrides[1].useValue = "null"
  /\ testModule.overrides[1].useClass = "MockClass"
  /\ testModule.overrides[2].provide = "ConfigService"
  /\ ~HasStrategy(testModule.overrides[2])
  /\ testModule.registered = <<Registration("UserService", "useValue", "null", "[]")>>
  /\ testModule.instances["ConfigService"] = [kind |-> "real", val |-> "ConfigService"]

\* An entry with a useFactory alone and no inject was registered with the
\* empty inject list.
C30_FactoryReached ==
  /\ testModule.called /\ Len(testModule.registered) = 1
  /\ testModule.overrides[1].inject = Undefined
  /\ testModule.registered[1].strategy = "useFactory"
  /\ testModule.registered[1].inject = "[]"
====
